---- MODULE Spec2Model ----
(***************************************************************************)
(* Model of the concatfile plugin pair:                                    *)
(*   - library/concatfile.py         main()  (the Append Operator)         *)
(*   - action_plugins/concatfile.py  ActionModule.run (Staging Dispatcher) *)
(* The target host's filesystem is a function from paths to nodes.  File   *)
(* contents are sequences of characters.  Every action is one whole        *)
(* invocation; the record `call` keeps the request, the filesystem before  *)
(* the invocation and the structured result of the last invocation.        *)
(***************************************************************************)
EXTENDS Integers, Sequences, FiniteSets, TLC

VARIABLES fs, srcContent, origDest, task, call

vars == <<fs, srcContent, origDest, task, call>>

(* ------------------------------ bounds --------------------------------- *)
MaxSrcLen  == 1
MaxInitLen == 1
MaxCopies  == 2
MaxStamp   == 1

Chars == {"a", "b"}

RECURSIVE StrOfLen(_)
StrOfLen(n) ==
    IF n = 0 THEN {<<>>}
    ELSE {Append(s, c) : s \in StrOfLen(n - 1), c \in Chars}

StrUpTo(n) == UNION {StrOfLen(k) : k \in 0..n}

(* ------------------------------ paths ---------------------------------- *)
\* A path is a name plus an extension; ext = 0 is "no extension", ext = t > 0
\* is the timestamp suffix backup_local puts after the name.
Names  == {"dest", "real", "tmp1/src", "tmp2/src"}
Stamps == 1..MaxStamp
Path(n) == [name |-> n, ext |-> 0]
Paths  == {[name |-> n, ext |-> 0] : n \in Names}
          \cup {[name |-> n, ext |-> e] : n \in {"dest", "real"}, e \in Stamps}
NoPath == [name |-> "", ext |-> 0]

DestPath == Path("dest")
RealDest == Path("real")
Tmp1Src  == Path("tmp1/src")
Tmp2Src  == Path("tmp2/src")

(* ------------------------------ nodes ---------------------------------- *)
NoNode       == [kind |-> "none", data |-> <<>>, to |-> NoPath, r |-> FALSE, w |-> FALSE]
DirNode      == [kind |-> "dir",  data |-> <<>>, to |-> NoPath, r |-> TRUE,  w |-> TRUE]
LinkNode(t)  == [kind |-> "link", data |-> <<>>, to |-> t,      r |-> TRUE,  w |-> TRUE]
FileNode(d, rd, wr) == [kind |-> "file", data |-> d, to |-> NoPath, r |-> rd, w |-> wr]

(* --------------------------- os.path, os ------------------------------- *)
islink(f, p) == f[p].kind = "link"

\* os.path.realpath: links of the model are one level deep (dest -> real).
realpath(f, p) == IF islink(f, p) THEN f[p].to ELSE p

\* os.path.exists follows links: a dangling link does not exist.
exists(f, p) == f[realpath(f, p)].kind \in {"file", "dir"}

isdir(f, p) == f[realpath(f, p)].kind = "dir"

\* os.access(p, os.R_OK)
access_R(f, p) == exists(f, p) /\ f[realpath(f, p)].r

\* open(p, 'r') / open(p, 'a') succeed
CanRead(f, p)  == f[realpath(f, p)].kind = "file" /\ f[realpath(f, p)].r
CanWrite(f, p) == f[realpath(f, p)].kind = "file" /\ f[realpath(f, p)].w

\* fd.read(): the whole content behind the path
read(f, p) == f[realpath(f, p)].data

\* Python's `sourcefile in destfile` on strings: substring search.
Contains(d, s) ==
    \E i \in 0..(Len(d) - Len(s)) : SubSeq(d, i + 1, i + Len(s)) = s

(* ------------------- AnsibleModule helpers used by main ---------------- *)
\* Faulty variant: opens the file with 'w', losing what it held.
append_to_file_Truncating(f, filename, str) ==
    [f EXCEPT ![realpath(f, filename)].data = str]

\* Faulty variant: skips the write when str is already in the file.
append_to_file_Dedup(f, filename, str) ==
    IF Contains(f[realpath(f, filename)].data, str) /\ str # <<>>
    THEN f
    ELSE [f EXCEPT ![realpath(f, filename)].data = @ \o str]

\* module.append_to_file(filename, str): open(filename, 'a'); write(str)
append_to_file(f, filename, str) ==
    [f EXCEPT ![realpath(f, filename)].data = @ \o str]

\* Name of the backup of fn taken at time `now`: '%s.%s' % (fn, ext)
backupdest(fn, now) == [name |-> fn.name, ext |-> now]

\* module.backup_local(fn): shutil.copy2(fn, backupdest) when fn exists; the
\* copy fails (fail_json) when fn cannot be read.  Returns the new filesystem,
\* the backup's name ('' = NoPath when fn does not exist) and a success flag.
backup_local(f, fn, now) ==
    IF ~exists(f, fn)
    THEN [fs |-> f, name |-> NoPath, ok |-> TRUE]
    ELSE IF ~CanRead(f, fn)
    THEN [fs |-> f, name |-> backupdest(fn, now), ok |-> FALSE]
    ELSE [fs   |-> [f EXCEPT ![backupdest(fn, now)] =
                        FileNode(read(f, fn), f[realpath(f, fn)].r, f[realpath(f, fn)].w)],
          name |-> backupdest(fn, now),
          ok   |-> TRUE]

\* module.set_fs_attributes_if_different(file_args, changed): the collaborator
\* reports whether attributes differed (attr_diff) and ORs it into changed.
set_fs_attributes_if_different(attr_diff, changed) == changed \/ attr_diff

(* ------------------------- main(): the try block ----------------------- *)
IOErrorMsg    == "failed to append"
BackupFailMsg == "Could not make backup"

TryOk(f, chg, bf) ==
    [fs |-> f, ok |-> TRUE, msg |-> "", changed |-> chg, backup_file |-> bf]
TryFail(f, m) ==
    [fs |-> f, ok |-> FALSE, msg |-> m, changed |-> FALSE, backup_file |-> NoPath]

\* Faulty variant: the backup is taken after the append.
BackupThenAppend_Late(f, dest, sourcefile, backup, now) ==
    IF ~CanWrite(f, dest) THEN TryFail(f, IOErrorMsg)
    ELSE LET g == append_to_file(f, dest, sourcefile)
             b == IF backup THEN backup_local(g, dest, now)
                            ELSE [fs |-> g, name |-> NoPath, ok |-> TRUE]
         IN  IF ~b.ok THEN TryFail(g, BackupFailMsg)
             ELSE TryOk(b.fs, TRUE, b.name)

\* "if backup: backup_file = module.backup_local(dest)" followed by
\* "module.append_to_file(dest, sourcefile); changed = True"
BackupThenAppend(f, dest, sourcefile, backup, now) ==
    LET b  == IF backup THEN backup_local(f, dest, now)
                        ELSE [fs |-> f, name |-> NoPath, ok |-> TRUE]
    IN  IF ~b.ok THEN TryFail(f, BackupFailMsg)
        ELSE IF ~CanWrite(b.fs, dest) THEN TryFail(b.fs, IOErrorMsg)
        ELSE TryOk(append_to_file(b.fs, dest, sourcefile), TRUE, b.name)

\* Faulty variant: appends without looking for the source in the destination.
BranchNoForce_Blind(f, dest, sourcefile, backup, now) ==
    IF ~CanRead(f, dest) THEN TryFail(f, IOErrorMsg)
    ELSE BackupThenAppend(f, dest, sourcefile, backup, now)

\* if not force and not check:
BranchNoForce(f, dest, sourcefile, backup, now) ==
    IF ~CanRead(f, dest) THEN TryFail(f, IOErrorMsg)
    ELSE IF Contains(read(f, dest), sourcefile)
         THEN TryOk(f, FALSE, NoPath)
         ELSE BackupThenAppend(f, dest, sourcefile, backup, now)

\* elif not check:
BranchForce(f, dest, sourcefile, backup, now) ==
    BackupThenAppend(f, dest, sourcefile, backup, now)

\* Faulty variant: check mode writes what the real run would write.
BranchCheck_Writing(f, dest, sourcefile, backup, now) ==
    IF ~CanRead(f, dest) THEN TryFail(f, IOErrorMsg)
    ELSE IF Contains(read(f, dest), sourcefile)
         THEN TryOk(f, FALSE, NoPath)
         ELSE BackupThenAppend(f, dest, sourcefile, backup, now)

\* else: (check mode)
BranchCheck(f, dest, sourcefile, backup, now) ==
    IF ~CanRead(f, dest) THEN TryFail(f, IOErrorMsg)
    ELSE TryOk(f, ~Contains(read(f, dest), sourcefile), NoPath)

\* "allow for conversion from symlink": os.unlink(dest); open(dest, 'w').close()
ConvertSymlink(f, dest) ==
    IF islink(f, dest) THEN [f EXCEPT ![dest] = FileNode(<<>>, TRUE, TRUE)] ELSE f

TryBlock(f0, src, dest, force, backup, check, now) ==
    LET f1 == ConvertSymlink(f0, dest)
    IN  IF ~CanRead(f1, src) THEN TryFail(f1, IOErrorMsg)
        ELSE LET sourcefile == read(f1, src)
             IN  IF ~force /\ ~check
                 THEN BranchNoForce(f1, dest, sourcefile, backup, now)
                 ELSE IF ~check
                 THEN BranchForce(f1, dest, sourcefile, backup, now)
                 ELSE BranchCheck(f1, dest, sourcefile, backup, now)

(* --------------------------- main(): the whole ------------------------- *)
SrcNotFound    == "Source not found"
SrcNotReadable == "Source not readable"
DestIsDir      == "Source is directory, must be file"
DestMissing    == "Destination doesn't exists"

\* Faulty variant: the destination is examined before the source.
Preconditions_DestFirst(f, src, dest) ==
    IF ~exists(f, dest) THEN DestMissing
    ELSE IF isdir(f, dest) THEN DestIsDir
    ELSE IF ~exists(f, src) THEN SrcNotFound
    ELSE IF ~access_R(f, src) THEN SrcNotReadable
    ELSE ""

\* The precondition checks in the order main() makes them; "" = all passed.
Preconditions(f, src, dest) ==
    IF ~exists(f, src) THEN SrcNotFound
    ELSE IF ~access_R(f, src) THEN SrcNotReadable
    ELSE IF exists(f, dest)
         THEN IF isdir(f, IF islink(f, dest) THEN realpath(f, dest) ELSE dest)
              THEN DestIsDir ELSE ""
         ELSE DestMissing

\* "if os.path.islink(dest): dest = os.path.realpath(dest)"
ResolveDest(f, dest) == IF islink(f, dest) THEN realpath(f, dest) ELSE dest

Failed(f, m) ==
    [fs  |-> f, reconciled |-> FALSE,
     res |-> [failed |-> TRUE, msg |-> m, changed |-> FALSE,
              backup_file |-> NoPath, dest |-> NoPath, src |-> NoPath,
              check |-> FALSE]]

\* p: module.params plus module.check_mode; now: the time backup_local reads;
\* attr_diff: whether the file-attribute collaborator finds a difference.
main(f, p, now, attr_diff) ==
    LET pre == Preconditions(f, p.src, p.dest)
    IN  IF pre # "" THEN Failed(f, pre)
        ELSE LET dest == ResolveDest(f, p.dest)
                 t    == TryBlock(f, p.src, dest, p.force, p.backup, p.check, now)
             IN  IF ~t.ok THEN Failed(t.fs, t.msg)
                 ELSE [fs  |-> t.fs, reconciled |-> TRUE,
                       res |-> [failed |-> FALSE, msg |-> "",
                                changed |-> set_fs_attributes_if_different(attr_diff, t.changed),
                                backup_file |-> t.backup_file,
                                dest |-> dest, src |-> p.src, check |-> p.check]]

(* ------------------ ActionModule.run: the dispatcher ------------------- *)
SrcRequired == "src is required"

\* The task's src as the playbook names it; NoPath stands for "no src".
TaskSrc == [name |-> "src", ext |-> 0]

NoArgs == [src |-> NoPath, dest |-> NoPath, backup |-> FALSE, force |-> FALSE]

\* self._loader.path_dwim_relative(<role path or basedir>, 'files', src)
path_dwim_relative(in_role, src) ==
    IF in_role THEN "roles/r/files/" \o src.name ELSE "files/" \o src.name

\* tmp is None or "-tmp-" not in tmp: only the handle "tmp1" carries the marker.
NeedsTmpPath(tmp) == tmp = "None" \/ tmp # "tmp1"

\* self._make_tmp_path(): a fresh staging directory
make_tmp_path == "tmp2"

\* self._connection._shell.join_path(tmp, os.path.basename(src))
join_path(tmp, base) == Path(tmp \o "/" \o base)
basename(src) == src.name

LogEntry(o, l, r, a) == [op |-> o, local |-> l, remote |-> r, args |-> a]

\* self._connection.put_file(src, tmp_src); readable: whether the escalated
\* user can read the uploaded file as the transport left it.
put_file(f, content, tmp_src, readable) ==
    [f EXCEPT ![tmp_src] = FileNode(content, readable, TRUE)]

\* self._remote_chmod('a+r', tmp_src)
remote_chmod(f, tmp_src) == [f EXCEPT ![tmp_src].r = TRUE]

\* Faulty variant: only src and dest are forwarded, the other arguments of
\* the task falling back to the module's defaults.
new_module_args_Defaults(args, tmp_src) ==
    [src |-> tmp_src, dest |-> args.dest, backup |-> FALSE, force |-> TRUE]

\* new_module_args = self._task.args.copy(); new_module_args.update(dict(src=tmp_src))
new_module_args(args, tmp_src) == [args EXCEPT !.src = tmp_src]

\* self._execute_module('concatfile', module_args=...): main() on the target,
\* the module's check_mode being the play context's.
execute_module(f, module_args, check_mode, now, attr_diff) ==
    main(f, [src |-> module_args.src, dest |-> module_args.dest,
             backup |-> module_args.backup, force |-> module_args.force,
             check |-> check_mode], now, attr_diff)

\* tk: the task, [args, in_role, tmp, become] (become: become is set and become_user
\* is not root); content: the local source file's content.
run(f, tk, content, check_mode, readable, now, attr_diff) ==
    IF tk.args.src = NoPath
    THEN [fs |-> f, log |-> <<>>, reconciled |-> FALSE,
          res |-> Failed(f, SrcRequired).res]
    ELSE LET src     == path_dwim_relative(tk.in_role, tk.args.src)
             fresh   == NeedsTmpPath(tk.tmp)
             tmp     == IF fresh THEN make_tmp_path ELSE tk.tmp
             tmp_src == join_path(tmp, basename(tk.args.src))
             log1    == IF fresh
                        THEN <<LogEntry("make_tmp_path", "", Path(tmp), NoArgs)>>
                        ELSE <<>>
             f1      == put_file(f, content, tmp_src, (~tk.become) \/ readable)
             log2    == Append(log1, LogEntry("put_file", src, tmp_src, NoArgs))
             chmod   == tk.become /\ ~check_mode
             f2      == IF chmod THEN remote_chmod(f1, tmp_src) ELSE f1
             log3    == IF chmod
                        THEN Append(log2, LogEntry("remote_chmod", "", tmp_src, NoArgs))
                        ELSE log2
             margs   == new_module_args(tk.args, tmp_src)
             out     == execute_module(f2, margs, check_mode, now, attr_diff)
         IN  [fs |-> out.fs,
              log |-> Append(log3, LogEntry("execute_module", "", NoPath, margs)),
              reconciled |-> out.reconciled,
              res |-> out.res]

(* ------------------------------ state ---------------------------------- *)
NoParams == [src |-> NoPath, dest |-> NoPath, backup |-> FALSE, force |-> FALSE,
             check |-> FALSE]

NoTask == [args |-> NoArgs, in_role |-> FALSE, tmp |-> "None", become |-> FALSE]

NoCall == [op |-> "none", params |-> NoParams, pre |-> [q \in Paths |-> NoNode],
           now |-> 1, attr_diff |-> FALSE, reconciled |-> FALSE,
           res |-> Failed([q \in Paths |-> NoNode], "").res, log |-> <<>>]

\* The destination as the environment may have left it before the first run.
DestShapes(d) ==
    {[dest |-> NoNode, real |-> NoNode],
     [dest |-> DirNode, real |-> NoNode],
     [dest |-> LinkNode(RealDest), real |-> NoNode],
     [dest |-> LinkNode(RealDest), real |-> DirNode]}
    \cup {[dest |-> FileNode(d, rd, wr), real |-> NoNode] : rd, wr \in BOOLEAN}
    \cup {[dest |-> LinkNode(RealDest), real |-> FileNode(d, rd, wr)] : rd, wr \in BOOLEAN}

SrcShapes(s) == {NoNode} \cup {FileNode(s, rd, TRUE) : rd \in BOOLEAN}

InitFs(sh, sn) ==
    [q \in Paths |->
        IF q = DestPath THEN sh.dest
        ELSE IF q = RealDest THEN sh.real
        ELSE IF q = Tmp1Src THEN sn
        ELSE NoNode]

\* The module invoked directly on a target whose files the environment chose.
Init ==
    /\ srcContent \in StrUpTo(MaxSrcLen)
    /\ origDest \in StrUpTo(MaxInitLen)
    /\ \E sh \in DestShapes(origDest), sn \in SrcShapes(srcContent) :
          /\ (sh.dest.kind = "file" \/ sh.real.kind = "file") \/ origDest = <<>>
          /\ sn.kind = "file" \/ srcContent = <<>>
          /\ fs = InitFs(sh, sn)
    /\ task = NoTask
    /\ call = NoCall

\* The destination holds at most MaxCopies appended copies of the source.
WithinBound(f) ==
    /\ Len(f[DestPath].data) <= Len(origDest) + MaxCopies * Len(srcContent)
    /\ Len(f[RealDest].data) <= Len(origDest) + MaxCopies * Len(srcContent)

\* One invocation of the module on the target host.
Main ==
    \E force, backup, check, attr_diff \in BOOLEAN, now \in Stamps :
        LET p   == [src |-> Tmp1Src, dest |-> DestPath, backup |-> backup,
                    force |-> force, check |-> check]
        IN  /\ backup \/ now = 1
            /\ \E out \in {main(fs, p, now, attr_diff)} :
                /\ WithinBound(out.fs)
                /\ fs' = out.fs
                /\ call' = [op |-> "main", params |-> p, pre |-> fs, now |-> now,
                            attr_diff |-> attr_diff, reconciled |-> out.reconciled,
                            res |-> out.res, log |-> <<>>]
                /\ UNCHANGED <<srcContent, origDest, task>>

Next == Main

Spec == Init /\ [][Next]_vars

(* ------------- the playbook task run through the dispatcher ------------ *)
Tasks ==
    {[args    |-> [src |-> s, dest |-> DestPath, backup |-> b, force |-> fo],
      in_role |-> ro, tmp |-> tm, become |-> be] :
        s \in {NoPath, TaskSrc}, b \in BOOLEAN, fo \in BOOLEAN,
        ro \in BOOLEAN, tm \in {"None", "other", "tmp1"}, be \in BOOLEAN}

\* A playbook task, fixed for the behaviour, on a target whose destination is
\* an empty regular file or is missing; nothing is staged yet.
InitStaging ==
    /\ srcContent \in StrUpTo(MaxSrcLen)
    /\ origDest = <<>>
    /\ \E sh \in {[dest |-> NoNode, real |-> NoNode],
                  [dest |-> FileNode(origDest, TRUE, TRUE), real |-> NoNode]} :
          fs = InitFs(sh, NoNode)
    /\ task \in Tasks
    /\ call = NoCall

\* One run of the task (ansible-playbook, with or without --check).
Run ==
    \E check_mode, readable, attr_diff \in BOOLEAN, now \in Stamps :
        /\ task.args.backup \/ now = 1
        /\ (task.become /\ check_mode) \/ readable
        /\ \E out \in {run(fs, task, srcContent, check_mode, readable, now, attr_diff)} :
            /\ WithinBound(out.fs)
            /\ fs' = out.fs
            /\ call' = [op |-> "run",
                        params |-> [src |-> task.args.src, dest |-> task.args.dest,
                                    backup |-> task.args.backup,
                                    force |-> task.args.force, check |-> check_mode],
                        pre |-> fs, now |-> now, attr_diff |-> attr_diff,
                        reconciled |-> out.reconciled, res |-> out.res,
                        log |-> out.log]
            /\ UNCHANGED <<srcContent, origDest, task>>

NextStaging == Run

SpecStaging == InitStaging /\ [][NextStaging]_vars

(* ======================= properties of the runs ======================== *)
\* Vocabulary of the properties, stated from the request and the filesystems
\* before (call.pre) and after (fs) the last invocation.
IsSubstring(s, d) ==
    \E k \in 0..Len(d) :
        /\ k + Len(s) <= Len(d)
        /\ \A n \in 1..Len(s) : d[k + n] = s[n]

RECURSIVE Copies(_, _)
Copies(s, k) == IF k = 0 THEN <<>> ELSE s \o Copies(s, k - 1)

Follow(f, q) == IF f[q].kind = "link" THEN f[q].to ELSE q

IsMain   == call.op = "main"
Req      == call.params
Res      == call.res
Ok       == ~call.res.failed
SrcNode  == call.pre[Req.src]
PreNode  == call.pre[Follow(call.pre, Req.dest)]
PostNode == fs[Follow(fs, Req.dest)]
S        == SrcNode.data
D        == PreNode.data
DAfter   == PostNode.data

\* The four preconditions of the Append Operator all hold before the run.
PreconditionsHold ==
    /\ SrcNode.kind = "file" /\ SrcNode.r
    /\ PreNode.kind = "file"

\* The run is one that appends: a real run, forced or with S not yet in D.
Appends == ~Req.check /\ (Req.force \/ ~IsSubstring(S, D))

BackupsUntouched == \A q \in Paths : q.ext # 0 => fs[q] = call.pre[q]

(* C1 as written: with force=false and S a substring of D (also S empty), a
   run that passes its preconditions (and returns a result) returns
   changed=false and leaves the destination content equal to D. *)
C1_Original ==
    (IsMain /\ ~Req.force /\ PreconditionsHold /\ IsSubstring(S, D) /\ Ok)
        => (Res.changed = FALSE /\ DAfter = D)

(* C1 amended: with force=false and S a substring of D, a run that passes its
   preconditions leaves the destination content equal to D; when the
   destination can be read the run succeeds and its changed flag is true
   exactly when attribute reconciliation reports a change. *)
C1_Idempotent ==
    (IsMain /\ ~Req.force /\ PreconditionsHold /\ IsSubstring(S, D))
        => /\ DAfter = D
           /\ PostNode = PreNode
           /\ PreNode.r => (Ok /\ Res.changed = call.attr_diff)

C1_Witness ==
    /\ IsMain /\ ~Req.force /\ ~Req.check /\ PreconditionsHold
    /\ S # <<>> /\ IsSubstring(S, D) /\ Len(D) > Len(S)
    /\ Ok /\ ~Res.changed /\ DAfter = D

(* C2: with force=true and check_mode=false, a run whose reads and writes
   succeed returns changed=true and leaves the destination equal to exactly
   D followed by S, whether or not S already occurs in D. *)
C2_ForcedAppend ==
    (IsMain /\ Req.force /\ ~Req.check)
        => /\ Ok => (Res.changed /\ DAfter = D \o S)
           /\ (PreconditionsHold /\ PreNode.w /\ (Req.backup => PreNode.r)) => Ok

C2_Witness ==
    /\ IsMain /\ Req.force /\ ~Req.check /\ Ok
    /\ S # <<>> /\ IsSubstring(S, D)
    /\ Res.changed /\ DAfter = D \o S

(* C3: a run with check_mode=true leaves every file as it was, for every
   force and backup: the destination content is identical and no backup
   artifact is created. *)
C3_CheckModeFrame ==
    (IsMain /\ Req.check) => (fs = call.pre /\ Res.backup_file = NoPath)

C3_Witness ==
    /\ IsMain /\ Req.check /\ Req.force /\ Req.backup
    /\ Ok /\ Res.changed /\ S # <<>> /\ fs = call.pre

(* C4: with backup=true, a run that appends creates the backup before the
   append, at a path different from the destination's, holding the
   destination's content from before the append, and returns that path as
   backup_file; a run that does not append (S already present with
   force=false, or check_mode) creates no backup and returns no backup_file. *)
C4_Backup ==
    IsMain =>
        /\ (Req.backup /\ Ok /\ Appends) =>
              /\ Res.backup_file # NoPath
              /\ Res.backup_file # Req.dest
              /\ Res.backup_file # Follow(call.pre, Req.dest)
              /\ Res.backup_file.ext = call.now
              /\ fs[Res.backup_file].kind = "file"
              /\ fs[Res.backup_file].data = D
              /\ DAfter = D \o S
        /\ (~Appends /\ PreconditionsHold) =>
              (BackupsUntouched /\ Res.backup_file = NoPath)

C4_Witness ==
    /\ IsMain /\ Req.backup /\ Ok /\ Appends /\ S # <<>> /\ D # <<>>
    /\ fs[Res.backup_file].data = D /\ DAfter = D \o S

(* C5: after any sequence of runs with the same source content, the
   destination content is the original content followed by zero or more whole
   copies of the source; the destination stays what it was (file or link). *)
C5_OnlyWholeCopies ==
    LET now_ == fs[Follow(fs, DestPath)]
    IN  /\ fs[DestPath].kind = call.pre[DestPath].kind \/ call.op = "none"
        /\ now_.kind = "file" =>
              \E k \in 0..Len(now_.data) :
                  now_.data = origDest \o Copies(srcContent, k)

C5_Witness ==
    /\ srcContent # <<>> /\ origDest # <<>>
    /\ fs[Follow(fs, DestPath)].data = origDest \o srcContent \o srcContent
    /\ IsMain /\ call.pre = fs /\ Ok

(* C6: a missing destination fails with the destination-missing error; a
   missing or unreadable source fails with the source error whatever the
   destination is (so with both missing the error is the source one); every
   such failure changes no file, makes no backup and reconciles nothing. *)
C6_PreconditionFailures ==
    IsMain =>
        /\ SrcNode.kind = "none" => (Res.failed /\ Res.msg = SrcNotFound)
        /\ (SrcNode.kind = "file" /\ ~SrcNode.r)
              => (Res.failed /\ Res.msg = SrcNotReadable)
        /\ (SrcNode.kind = "file" /\ SrcNode.r /\ PreNode.kind = "none")
              => (Res.failed /\ Res.msg = DestMissing)
        /\ Res.msg \in {SrcNotFound, SrcNotReadable, DestMissing}
              => /\ Res.failed
                 /\ fs = call.pre
                 /\ ~call.reconciled
                 /\ Res.backup_file = NoPath

C6_Witness ==
    /\ IsMain /\ SrcNode.kind = "none" /\ PreNode.kind = "none"
    /\ Res.failed /\ Res.msg = SrcNotFound /\ fs = call.pre

(* C7 as written: when the request's destination is a symlink to a regular
   file, every run that passes its preconditions leaves a regular file at
   the destination path. *)
C7_SymlinkReplaced ==
    (IsMain /\ PreconditionsHold /\ Ok /\ call.pre[Req.dest].kind = "link")
        => fs[Req.dest].kind = "file"

(* C8 as written: in a successful run, changed = (content was appended, or in
   check_mode would be appended by the real run) OR (attribute reconciliation
   reports a change). *)
C8_ChangedFlag ==
    (IsMain /\ Ok)
        => Res.changed = ((Req.force \/ ~IsSubstring(S, D)) \/ call.attr_diff)

(* C10 as written: with attribute reconciliation reporting no change, the
   changed flag of a check_mode run equals the changed flag of the run with
   check_mode=false on the same initial state and the same request. *)
C10_DryRunFaithful ==
    (IsMain /\ Req.check /\ Ok /\ ~call.attr_diff)
        => \A real \in {main(call.pre, [Req EXCEPT !.check = FALSE], call.now, FALSE)} :
              ~real.res.failed => Res.changed = real.res.changed

(* C9: without src the dispatcher fails with "src is required" and does
   nothing on the target (no staging directory, no transfer, no chmod, no
   module run); with src the module runs exactly once, as the last remote
   operation and after the file was staged, with the task's arguments except
   that src is the staged path. *)
LogOps(o) == {i \in 1..Len(call.log) : call.log[i].op = o}

C9_Dispatch ==
    call.op = "run" =>
        /\ task.args.src = NoPath =>
              /\ Res.failed /\ Res.msg = SrcRequired
              /\ call.log = <<>>
              /\ fs = call.pre
        /\ task.args.src # NoPath =>
              /\ LogOps("execute_module") = {Len(call.log)}
              /\ \E i \in LogOps("put_file") :
                    /\ i < Len(call.log)
                    /\ LogOps("put_file") = {i}
                    /\ call.log[i].remote \in {Tmp1Src, Tmp2Src}
                    /\ call.log[Len(call.log)].args =
                          [task.args EXCEPT !.src = call.log[i].remote]
                    /\ fs[call.log[i].remote].kind = "file"
                    /\ fs[call.log[i].remote].data = srcContent

C9_Witness ==
    /\ call.op = "run" /\ task.args.src = NoPath
    /\ Res.failed /\ Res.msg = SrcRequired /\ call.log = <<>> /\ fs = call.pre

C9_WitnessStaged ==
    /\ call.op = "run" /\ task.args.src # NoPath
    /\ Len(call.log) = 4 /\ Ok /\ Res.changed

====
